---- MODULE Spec2Model ----
(***************************************************************************)
(* utrack: a UDP BitTorrent tracker (src/main.cpp).                        *)
(*                                                                         *)
(* The worker threads (tracker_thread) share one receive socket, the swarm *)
(* table behind a read-write lock, and six statistics counters.  The main  *)
(* thread samples the counters once a minute, sweeps the table for stale   *)
(* peers and, after a signal, closes the socket and joins the workers.     *)
(*                                                                         *)
(* Wire fields are kept as tuples of bytes in wire (memory) order; ntohl,  *)
(* htonl and be64toh convert between them and numbers.                     *)
(***************************************************************************)
EXTENDS Integers, Sequences, FiniteSets, TLC

(***************************************************************************)
(* Bounds of the model.                                                    *)
(***************************************************************************)
\* worker threads started by main (the source starts num_threads = 4)
NumThreads == 2
\* datagrams the receive socket delivers in one behaviour
MaxDatagrams == 3
\* width in bits of a statistics counter (uint32_t in the source); it is
\* kept small so that a counter wraps within MaxDatagrams datagrams
CounterBits == 3

Threads == 1 .. NumThreads
CounterMod == 2 ^ CounterBits

(***************************************************************************)
(* Protocol constants.                                                     *)
(***************************************************************************)
action_connect == 0
action_announce == 1
action_scrape == 2
\* be64toh(connection_id) of a connect request: 0x41727101980 as its two
\* 32-bit halves, 0x00000417 and 0x27101980
ConnectMagic == <<1047, 655366528>>
max_scrape_responses == 74

(***************************************************************************)
(* Byte order.                                                             *)
(***************************************************************************)
\* a number < 2^31 as four bytes, most significant first
htonl(v) ==
  << (v \div 16777216) % 256, (v \div 65536) % 256, (v \div 256) % 256, v % 256 >>

\* four bytes in network order as a number
ntohl(b) == ((b[1] * 256 + b[2]) * 256 + b[3]) * 256 + b[4]

\* eight bytes in network order as the two 32-bit halves of the number
be64toh(b) == << ntohl(<<b[1], b[2], b[3], b[4]>>), ntohl(<<b[5], b[6], b[7], b[8]>>) >>

\* the inverse of be64toh on the byte level, used to build client requests
htobe64(p) == htonl(p[1]) \o htonl(p[2])

Min(a, b) == IF a < b THEN a ELSE b

(***************************************************************************)
(* Connection ids.                                                         *)
(***************************************************************************)
\* SHA-1 over (secret key, source address, source port): 20 bytes.  SHA-1
\* is modelled as a collision-free mixing of its input: the first eight
\* bytes determine (key, ip, port), and never are all zero or the magic.
SHA1(key, ip, port) ==
  << 128 + key, ip, port, key + ip, key + port, ip + port, 17, 1,
     64 + key, 255 - ip, 255 - port, 3, 5, 7, 11, 13, 19, 23, 29, 31 >>

gen_secret_digest(key, from) == SHA1(key, from.ip, from.port)

\* a mutation: the connection id is cut from the tail of the digest
generate_connection_id_tail(key, from) ==
  SubSeq(gen_secret_digest(key, from), 13, 20)

\* memcpy(&ret, digest, 8)
generate_connection_id(key, from) ==
  SubSeq(gen_secret_digest(key, from), 1, 8)

\* a mutation: only the address is compared, not the port
verify_connection_id_noport(key, conn_id, from) ==
  SubSeq(conn_id, 1, 2) = SubSeq(gen_secret_digest(key, from), 1, 2)

\* memcmp(&conn_id, digest, 8) == 0
verify_connection_id(key, conn_id, from) ==
  conn_id = SubSeq(gen_secret_digest(key, from), 1, 8)

(***************************************************************************)
(* State.                                                                  *)
(***************************************************************************)
VARIABLES
  secret,         \* the key hashed into the SHA-1 context `secret`
  udp_socket,     \* the receive socket: "open" or "closed"
  quit,           \* set by the signal handler
  pc,             \* pc[t]: where worker t is in tracker_thread
  req,            \* req[t]: the datagram in worker t's buffer, with its source
  resp,           \* resp[t]: the response worker t is building
  out,            \* out[t]: the datagrams worker t has sent for req[t], in order
  sptr,           \* sptr[t]: worker t's local pointer `s` (a swarm id, 0 = null)
  readers,        \* threads holding swarm_mutex for reading
  swarms,         \* the swarm table: info-hash -> swarm id (0 = no entry)
  heap,           \* every swarm allocated with `new swarm`, by id
  stats,          \* the six counters
  added,          \* per counter, the total the workers have added
  reported,       \* per counter, the total main has sampled and taken out
  issued,         \* <<endpoint, connection id>> of every connect response sent
  nsent,          \* datagrams sent on all send sockets
  nrecv,          \* datagrams received
  cpc,            \* where main is in its loop
  last,           \* main's last_connects, last_announces, ...
  signalled,      \* a SIGINT or SIGTERM has been delivered
  next_to_purge,  \* the round-robin iterator: a position in the table or End
  npurge,         \* main's loop variables i and num_to_purge, as <<i, n>>
  joined,         \* workers main has joined
  purged,         \* history: the info-hashes purged in the current sweep, in order
  now             \* the wall clock, in minutes

wvars == <<pc, req, resp, out, sptr>>
tvars == <<readers, swarms, heap>>
svars == <<stats, added, reported>>
cvars == <<cpc, last, next_to_purge, npurge, joined, purged>>
evars == <<secret, udp_socket, quit, signalled, now>>
nvars == <<issued, nsent, nrecv>>
vars == <<wvars, tvars, svars, cvars, evars, nvars>>

CounterNames ==
  {"connects", "announces", "scrapes", "errors", "bytes_out", "bytes_in"}

\* the random 64-bit secret_key drawn at startup, abstracted to one value
SecretKeys == {1}

\* client endpoints: two clients behind one address
Endpoints == {[ip |-> 1, port |-> 1], [ip |-> 1, port |-> 2]}

\* info-hashes, in the iteration order of the hash table
Hashes == {1, 2}

NoReq == [size |-> -1]
NoResp == [kind |-> "none"]
End == 0

\* __sync_fetch_and_add on a counter of CounterBits bits
fetch_and_add(st, name, v) == [st EXCEPT ![name] = (@ + v) % CounterMod]

\* a mutation of the reset: the counter is stored as zero
fetch_and_sub_store0(st, name, v) == [st EXCEPT ![name] = 0]

\* __sync_fetch_and_sub
fetch_and_sub(st, name, v) == [st EXCEPT ![name] = (@ - v) % CounterMod]

(***************************************************************************)
(* Datagrams the clients send.                                             *)
(***************************************************************************)
Zero8 == <<0, 0, 0, 0, 0, 0, 0, 0>>

Datagram(from, size, cid, act, tid, hashes, left, event) ==
  [from |-> from, size |-> size, connection_id |-> cid, action |-> htonl(act),
   transaction_id |-> htonl(tid), hash |-> hashes, left |-> left,
   event |-> htonl(event), ip |-> 0, port |-> from.port, num_want |-> -1]

\* connection ids a client at `from` can put into a request: one it has
\* seen in a connect response (its own or another endpoint's), or zero
ClientConnIds == {p[2] : p \in issued} \cup {Zero8}

\* anything shorter than the header
ShortDatagrams ==
  {Datagram(e, 15, htobe64(ConnectMagic), action_connect, 1, <<>>, 0, 0) :
     e \in Endpoints}

ConnectDatagrams ==
  {Datagram(e, 16, htobe64(ConnectMagic), action_connect, t, <<>>, 0, 0) :
     e \in Endpoints, t \in {7, 9}}
  \cup
  {Datagram(e, 16, Zero8, action_connect, 7, <<>>, 0, 0) : e \in Endpoints}

\* (left, event): a leecher starting, a seed completing
AnnounceKinds == {<<1, 2>>, <<0, 1>>}

AnnounceDatagrams ==
  {Datagram(e, 98, c, action_announce, 7, <<h>>, k[1], k[2]) :
     e \in Endpoints, c \in ClientConnIds, h \in Hashes, k \in AnnounceKinds}
  \cup
  {Datagram(e, 97, c, action_announce, 7, <<1>>, 1, 2) :
     e \in Endpoints, c \in ClientConnIds}

ScrapeDatagrams ==
  {Datagram(e, n, c, action_scrape, 9, hs, 0, 0) :
     e \in Endpoints, n \in {36, 56}, c \in ClientConnIds,
     hs \in {<<1, 2>>, <<2, 1>>}}
  \cup
  {Datagram(e, 35, c, action_scrape, 9, <<1>>, 0, 0) :
     e \in Endpoints, c \in ClientConnIds}

\* action 3 is BEP-15's error action, which no client sends to a tracker
UnknownDatagrams ==
  {Datagram(e, 16, Zero8, 3, 7, <<>>, 0, 0) : e \in Endpoints}

Datagrams ==
  ShortDatagrams \cup ConnectDatagrams \cup AnnounceDatagrams
    \cup ScrapeDatagrams \cup UnknownDatagrams

(***************************************************************************)
(* Initial state: main has initialised the secret and the lock, bound the  *)
(* socket, started the workers and installed the signal handlers.          *)
(***************************************************************************)
Init ==
  /\ secret \in SecretKeys
  /\ udp_socket = "open"
  /\ quit = FALSE
  /\ pc = [t \in Threads |-> "loop"]
  /\ req = [t \in Threads |-> NoReq]
  /\ resp = [t \in Threads |-> NoResp]
  /\ out = [t \in Threads |-> <<>>]
  /\ sptr = [t \in Threads |-> 0]
  /\ readers = {}
  /\ swarms = [h \in Hashes |-> 0]
  /\ heap = <<>>
  /\ stats = [c \in CounterNames |-> 0]
  /\ added = [c \in CounterNames |-> 0]
  /\ reported = [c \in CounterNames |-> 0]
  /\ issued = {}
  /\ nsent = 0
  /\ nrecv = 0
  /\ cpc = <<"while", 0>>
  /\ last = [c \in CounterNames |-> 0]
  /\ signalled = FALSE
  /\ next_to_purge = End
  /\ npurge = <<0, 0>>
  /\ joined = {}
  /\ purged = <<>>
  /\ now = 0

(***************************************************************************)
(* The announce interval: 1680 + rand() * 240 / RAND_MAX in int.           *)
(***************************************************************************)
RAND_MAX == 2147483647
INT_MAX == 2147483647

\* values of rand(): the smallest, and one whose product with 240 wraps to
\* INT_MIN (2^27)
RandValues == {0, 134217728}

\* C's integer division, which truncates towards zero (b > 0)
CDiv(a, b) == IF a >= 0 \/ a % b = 0 THEN a \div b ELSE (a \div b) + 1

\* a * m in 32-bit two's complement, computed on 16-bit halves (a >= 0)
Mul32(a, m) ==
  LET p0 == (a % 65536) * m
      lo == p0 % 65536
      hi == ((a \div 65536) * m + (p0 \div 65536)) % 65536
  IN  IF hi >= 32768 THEN (hi - 65536) * 65536 + lo ELSE hi * 65536 + lo

\* <<floor(n * x / d), (n * x) % d>> for 0 <= x <= d, by doubling and
\* adding modulo d, so that no intermediate value leaves 32 bits
RECURSIVE MulDivMod(_, _, _)
MulDivMod(n, x, d) ==
  IF n = 0 THEN <<0, 0>>
  ELSE IF n % 2 = 0
  THEN LET h == MulDivMod(n \div 2, x, d)
       IN  IF h[2] >= d - h[2] THEN <<2 * h[1] + 1, h[2] - (d - h[2])>>
           ELSE <<2 * h[1], 2 * h[2]>>
  ELSE LET h == MulDivMod(n - 1, x, d)
       IN  IF h[2] >= d - x THEN <<h[1] + 1, h[2] - (d - x)>>
           ELSE <<h[1], h[2] + x>>

MulDiv(n, x, d) == MulDivMod(n, x, d)[1]

\* the values 1680 + rand() * 240 / RAND_MAX can take for rand() = r.  The
\* product overflows int for r > INT_MAX / 240, which is undefined: a build
\* either wraps it to 32 bits or evaluates it in a wider register.
Intervals(r) ==
  IF r <= INT_MAX \div 240
  THEN {1680 + CDiv(r * 240, RAND_MAX)}
  ELSE {1680 + CDiv(Mul32(r, 240), RAND_MAX),
        1680 + MulDiv(240, r, RAND_MAX)}

(***************************************************************************)
(* Swarms (swarm.hpp).                                                     *)
(***************************************************************************)
\* peers one swarm keeps; the oldest is evicted when the set is full
MaxPeers == 2
\* minutes after which purge_stale drops a peer
PeerTimeout == 45

Free == 0
Main == NumThreads + 1

\* completed_by is history, not a field of the program: the endpoint of
\* every announce of event completed the swarm has served, in order
NewSwarm ==
  [mutex |-> Free, peers |-> <<>>, seeds |-> 0, downloaders |-> 0,
   download_count |-> 0, completed_by |-> <<>>]

event_completed == 1
event_stopped == 3

\* the position of endpoint (ip, port) in a peer list, 0 if absent
RECURSIVE PeerIndex(_, _, _, _)
PeerIndex(peers, ip, port, i) ==
  IF i > Len(peers) THEN 0
  ELSE IF peers[i].ip = ip /\ peers[i].port = port THEN i
  ELSE PeerIndex(peers, ip, port, i + 1)

RemoveAt(q, i) == SubSeq(q, 1, i - 1) \o SubSeq(q, i + 1, Len(q))

\* the cached counters with d more peers of one role
Counted(s, seed, d) ==
  IF seed THEN [s EXCEPT !.seeds = @ + d] ELSE [s EXCEPT !.downloaders = @ + d]

\* entry i is taken out; the entries behind it keep their order
SwarmErase(s, i) ==
  [Counted(s, s.peers[i].seed, -1) EXCEPT !.peers = RemoveAt(s.peers, i)]

\* a new entry is put behind the others
SwarmInsert(s, entry) ==
  [Counted(s, entry.seed, 1) EXCEPT !.peers = Append(s.peers, entry)]

\* a mutation: the entry is replaced and the counters are left as they are
SwarmUpdateKeepRole(s, i, entry) == [s EXCEPT !.peers[i] = entry]

\* entry i is replaced in place; the counters follow its role
SwarmUpdate(s, i, entry) ==
  [Counted(Counted(s, s.peers[i].seed, -1), entry.seed, 1)
     EXCEPT !.peers[i] = entry]

\* a mutation: every announce of event completed counts as a download
AnyCompletion(ev, was) == ev = event_completed

\* the peer becomes complete with this announce
FirstCompletion(ev, was) == ev = event_completed /\ ~was

\* swarm::announce: the swarm after the announce in hdr at time t
SwarmAnnounce(s, hdr, t) ==
  LET i == PeerIndex(s.peers, hdr.ip, hdr.port, 1)
      ev == ntohl(hdr.event)
      was == IF i = 0 THEN FALSE ELSE s.peers[i].complete
      done == FirstCompletion(ev, was)
      entry == [ip |-> hdr.ip, port |-> hdr.port, seed |-> (hdr.left = 0),
                complete |-> (was \/ done), last_seen |-> t]
      s1 == [s EXCEPT !.download_count = IF done THEN @ + 1 ELSE @,
                      !.completed_by = IF ev = event_completed
                                       THEN Append(@, <<hdr.ip, hdr.port>>) ELSE @]
  IN  IF ev = event_stopped
      THEN IF i = 0 THEN s ELSE SwarmErase(s, i)
      ELSE IF i # 0 THEN SwarmUpdate(s1, i, entry)
      ELSE IF Len(s.peers) >= MaxPeers
      THEN SwarmInsert(SwarmErase(s1, 1), entry)
      ELSE SwarmInsert(s1, entry)

\* the peer sample an announce returns: the other peers' endpoints
PeerSample(s, hdr) ==
  LET others == {i \in 1 .. Len(s.peers) :
                   ~(s.peers[i].ip = hdr.ip /\ s.peers[i].port = hdr.port)}
  IN  {<<s.peers[i].ip, s.peers[i].port>> : i \in others}

\* the first entry not seen for more than PeerTimeout, 0 if there is none
RECURSIVE StaleIndex(_, _, _)
StaleIndex(peers, t, i) ==
  IF i > Len(peers) THEN 0
  ELSE IF t - peers[i].last_seen > PeerTimeout THEN i
  ELSE StaleIndex(peers, t, i + 1)

\* swarm::purge_stale: every stale entry is taken out
RECURSIVE SwarmPurgeStale(_, _)
SwarmPurgeStale(s, t) ==
  LET i == StaleIndex(s.peers, t, 1)
  IN  IF i = 0 THEN s ELSE SwarmPurgeStale(SwarmErase(s, i), t)

\* one 12-byte entry of a scrape response
Slot(seeds, download_count, downloaders) ==
  [seeds |-> htonl(seeds), download_count |-> htonl(download_count),
   downloaders |-> htonl(downloaders)]

\* swarm::scrape followed by the three htonl
SwarmScrape(s) == Slot(s.seeds, s.download_count, s.downloaders)

(***************************************************************************)
(* tracker_thread.                                                         *)
(***************************************************************************)
\* if this is true, peers may set the IP they announce as
allow_alternate_ip == FALSE

\* what the stack holds where resp.data[i] is placed and nothing has been
\* written: zeros, or the entry an earlier scrape left there
UninitSlots == {Slot(0, 0, 0), Slot(1, 1, 0)}

\* the top of for (;;): recvfrom is called.  On a closed socket it fails
\* with EBADF, the loop is left and the thread returns.
LoopTop(t) ==
  /\ pc[t] \in {"loop", "continue", "break"}
  /\ pc' = [pc EXCEPT ![t] = IF udp_socket = "open" THEN "blocked" ELSE "done"]
  /\ req' = [req EXCEPT ![t] = NoReq]
  /\ resp' = [resp EXCEPT ![t] = NoResp]
  /\ out' = [out EXCEPT ![t] = <<>>]
  /\ sptr' = [sptr EXCEPT ![t] = 0]
  /\ UNCHANGED <<tvars, svars, cvars, evars, nvars>>

\* recvfrom returns a datagram of U, one of at most n; bytes_in is counted
Recv(t, U, n) ==
  /\ pc[t] = "blocked"
  /\ nrecv < n
  /\ \E d \in U :
       /\ req' = [req EXCEPT ![t] = d]
       /\ stats' = fetch_and_add(stats, "bytes_in", d.size)
       /\ added' = fetch_and_add(added, "bytes_in", d.size)
  /\ pc' = [pc EXCEPT ![t] = "dispatch"]
  /\ nrecv' = nrecv + 1
  /\ UNCHANGED <<resp, out, sptr, tvars, reported, cvars, evars, issued, nsent>>

\* recvfrom returns -1 with EINTR: continue
RecvEintr(t) ==
  /\ pc[t] = "blocked"
  /\ UNCHANGED vars

\* recvfrom, entered before the socket was closed, returns -1 with another
\* error: break.  Whether a close by another thread ends a recvfrom that is
\* already blocked depends on the system.
RecvFail(t) ==
  /\ pc[t] = "blocked"
  /\ udp_socket = "closed"
  /\ pc' = [pc EXCEPT ![t] = "done"]
  /\ UNCHANGED <<req, resp, out, sptr, tvars, svars, cvars, evars, nvars>>

\* one more error is counted
CountError == 
  /\ stats' = fetch_and_add(stats, "errors", 1)
  /\ added' = fetch_and_add(added, "errors", 1)

\* one more of counter c is counted
Count(c) == 
  /\ stats' = fetch_and_add(stats, c, 1)
  /\ added' = fetch_and_add(added, c, 1)

\* size < 16: continue
DispatchShort(t) ==
  /\ pc' = [pc EXCEPT ![t] = "continue"]
  /\ UNCHANGED <<req, resp, sptr, readers, stats, added>>

\* a mutation: the magic is not checked
DispatchConnectAny(t) ==
  LET hdr == req[t] IN
  /\ resp' = [resp EXCEPT ![t] =
       [kind |-> "connect", to |-> hdr.from, len |-> 16,
        action |-> htonl(action_connect),
        connection_id |-> generate_connection_id(secret, hdr.from),
        transaction_id |-> hdr.transaction_id]]
  /\ Count("connects")
  /\ pc' = [pc EXCEPT ![t] = "respond"]
  /\ UNCHANGED <<req, sptr, readers>>

\* case action_connect
DispatchConnect(t) ==
  LET hdr == req[t] IN
  IF be64toh(hdr.connection_id) # ConnectMagic
  THEN /\ CountError
       /\ pc' = [pc EXCEPT ![t] = "continue"]
       /\ UNCHANGED <<req, resp, sptr, readers>>
  ELSE /\ resp' = [resp EXCEPT ![t] =
            [kind |-> "connect", to |-> hdr.from, len |-> 16,
             action |-> htonl(action_connect),
             connection_id |-> generate_connection_id(secret, hdr.from),
             transaction_id |-> hdr.transaction_id]]
       /\ Count("connects")
       /\ pc' = [pc EXCEPT ![t] = "respond"]
       /\ UNCHANGED <<req, sptr, readers>>

\* a mutation: a nonzero ip field is honoured whatever the flag says
DispatchAnnounceAlternate(t) ==
  LET hdr == req[t] IN
  IF ~verify_connection_id(secret, hdr.connection_id, hdr.from) \/ hdr.size < 98
  THEN /\ CountError
       /\ pc' = [pc EXCEPT ![t] = "continue"]
       /\ UNCHANGED <<req, resp, sptr, readers>>
  ELSE /\ Count("announces")
       /\ req' = [req EXCEPT ![t].ip = IF hdr.ip = 0 THEN hdr.from.ip ELSE hdr.ip]
       /\ pc' = [pc EXCEPT ![t] = "lookup"]
       /\ UNCHANGED <<resp, sptr, readers>>

\* case action_announce, up to the table lookup
DispatchAnnounce(t) ==
  LET hdr == req[t] IN
  IF ~verify_connection_id(secret, hdr.connection_id, hdr.from) \/ hdr.size < 98
  THEN /\ CountError
       /\ pc' = [pc EXCEPT ![t] = "continue"]
       /\ UNCHANGED <<req, resp, sptr, readers>>
  ELSE /\ Count("announces")
       /\ req' = [req EXCEPT ![t].ip =
            IF ~allow_alternate_ip \/ hdr.ip = 0 THEN hdr.from.ip ELSE hdr.ip]
       /\ pc' = [pc EXCEPT ![t] = "lookup"]
       /\ UNCHANGED <<resp, sptr, readers>>

\* case action_scrape, up to pthread_rwlock_rdlock.  No thread holds the
\* write lock between two steps, so the read lock is granted at once.
DispatchScrape(t) ==
  LET hdr == req[t]
      num_hashes == Min((hdr.size - 16) \div 20, max_scrape_responses)
  IN
  IF ~verify_connection_id(secret, hdr.connection_id, hdr.from) \/ hdr.size < 16 + 20
  THEN /\ CountError
       /\ pc' = [pc EXCEPT ![t] = "continue"]
       /\ UNCHANGED <<req, resp, sptr, readers>>
  ELSE /\ Count("scrapes")
       /\ \E data \in [1 .. num_hashes -> UninitSlots] :
            resp' = [resp EXCEPT ![t] =
              [kind |-> "scrape", to |-> hdr.from, len |-> 8 + num_hashes * 12,
               action |-> htonl(action_scrape),
               transaction_id |-> hdr.transaction_id,
               num_hashes |-> num_hashes, i |-> 0, data |-> data]]
       /\ readers' = readers \cup {t}
       /\ pc' = [pc EXCEPT ![t] = "scrape"]
       /\ UNCHANGED <<req, sptr>>

\* a mutation: an unknown action is answered with BEP-15's error action
DispatchUnknownReply(t) ==
  /\ CountError
  /\ resp' = [resp EXCEPT ![t] =
       [kind |-> "error", to |-> req[t].from, len |-> 8, action |-> htonl(3),
        transaction_id |-> req[t].transaction_id]]
  /\ pc' = [pc EXCEPT ![t] = "respond"]
  /\ UNCHANGED <<req, sptr, readers>>

\* default: the action is unknown
DispatchUnknown(t) ==
  /\ CountError
  /\ pc' = [pc EXCEPT ![t] = "break"]
  /\ UNCHANGED <<req, resp, sptr, readers>>

\* the size check and the switch on ntohl(hdr->action)
Dispatch(t) ==
  /\ pc[t] = "dispatch"
  /\ IF req[t].size < 16 THEN DispatchShort(t)
     ELSE IF ntohl(req[t].action) = action_connect THEN DispatchConnect(t)
     ELSE IF ntohl(req[t].action) = action_announce THEN DispatchAnnounce(t)
     ELSE IF ntohl(req[t].action) = action_scrape THEN DispatchScrape(t)
     ELSE DispatchUnknown(t)
  /\ UNCHANGED <<out, swarms, heap, reported, cvars, evars, nvars>>

\* a mutation: on a miss the read lock is kept, to be upgraded
LookupUpgrade(t) ==
  /\ pc[t] = "lookup"
  /\ sptr' = [sptr EXCEPT ![t] = swarms[req[t].hash[1]]]
  /\ pc' = [pc EXCEPT ![t] = IF swarms[req[t].hash[1]] # 0 THEN "announce" ELSE "insert"]
  /\ readers' = IF swarms[req[t].hash[1]] # 0 THEN readers ELSE readers \cup {t}
  /\ UNCHANGED <<req, resp, out, swarms, heap, svars, cvars, evars, nvars>>

\* rdlock, swarms.find(hdr->hash), unlock
Lookup(t) ==
  /\ pc[t] = "lookup"
  /\ sptr' = [sptr EXCEPT ![t] = swarms[req[t].hash[1]]]
  /\ pc' = [pc EXCEPT ![t] = IF swarms[req[t].hash[1]] # 0 THEN "announce" ELSE "insert"]
  /\ UNCHANGED <<req, resp, out, tvars, svars, cvars, evars, nvars>>

\* s = new swarm; wrlock, swarms.insert(make_pair(hdr->hash, s)), unlock.
\* The write lock waits for the readers.  insert leaves an entry that is
\* already there as it is; s stays the new swarm.
Insert(t) ==
  LET h == req[t].hash[1]
      id == Len(heap) + 1
  IN  /\ pc[t] = "insert"
      /\ readers = {}
      /\ heap' = Append(heap, NewSwarm)
      /\ swarms' = IF swarms[h] = 0 THEN [swarms EXCEPT ![h] = id] ELSE swarms
      /\ sptr' = [sptr EXCEPT ![t] = id]
      /\ pc' = [pc EXCEPT ![t] = "announce"]
      /\ UNCHANGED <<req, resp, out, readers, svars, cvars, evars, nvars>>

\* a mutation: the counters of the response are read before s->announce
AnnounceStaleCounters(t, R) ==
  LET hdr == req[t]
      s == sptr[t]
      after == SwarmAnnounce(heap[s], hdr, now)
      sample == PeerSample(after, hdr)
  IN  /\ pc[t] = "announce"
      /\ heap[s].mutex = Free
      /\ heap' = [heap EXCEPT ![s] = [after EXCEPT !.mutex = t]]
      /\ \E r \in R : \E iv \in Intervals(r) :
           resp' = [resp EXCEPT ![t] =
             [kind |-> "announce", to |-> hdr.from,
              len |-> 20 + 6 * Cardinality(sample),
              action |-> htonl(action_announce),
              transaction_id |-> hdr.transaction_id,
              interval |-> htonl(iv),
              downloaders |-> htonl(heap[s].downloaders),
              seeds |-> htonl(heap[s].seeds),
              peers |-> sample]]
      /\ pc' = [pc EXCEPT ![t] = "sendmsg"]
      /\ UNCHANGED <<req, out, sptr, readers, swarms, svars, cvars, evars, nvars>>

\* the response header with its interval, then swarm_lock l(*s) and
\* s->announce(...)
Announce(t, R) ==
  LET hdr == req[t]
      s == sptr[t]
      after == SwarmAnnounce(heap[s], hdr, now)
      sample == PeerSample(after, hdr)
  IN  /\ pc[t] = "announce"
      /\ heap[s].mutex = Free
      /\ heap' = [heap EXCEPT ![s] = [after EXCEPT !.mutex = t]]
      /\ \E r \in R : \E iv \in Intervals(r) :
           resp' = [resp EXCEPT ![t] =
             [kind |-> "announce", to |-> hdr.from,
              len |-> 20 + 6 * Cardinality(sample),
              action |-> htonl(action_announce),
              transaction_id |-> hdr.transaction_id,
              interval |-> htonl(iv),
              downloaders |-> htonl(after.downloaders),
              seeds |-> htonl(after.seeds),
              peers |-> sample]]
      /\ pc' = [pc EXCEPT ![t] = "sendmsg"]
      /\ UNCHANGED <<req, out, sptr, readers, swarms, svars, cvars, evars, nvars>>

\* sendmsg succeeds; the swarm lock is released at the end of the case
SendmsgOk(t) ==
  /\ pc[t] = "sendmsg"
  /\ out' = [out EXCEPT ![t] = Append(@, resp[t])]
  /\ stats' = fetch_and_add(stats, "bytes_out", resp[t].len)
  /\ added' = fetch_and_add(added, "bytes_out", resp[t].len)
  /\ nsent' = nsent + 1
  /\ heap' = [heap EXCEPT ![sptr[t]].mutex = Free]
  /\ pc' = [pc EXCEPT ![t] = "break"]
  /\ UNCHANGED <<req, resp, sptr, readers, swarms, reported, cvars, evars, issued, nrecv>>

\* sendmsg returns -1 with EINTR: `continue` in do { } while (false) goes
\* to the loop condition, which is false, so the loop is left
SendmsgEintr(t) ==
  /\ pc[t] = "sendmsg"
  /\ heap' = [heap EXCEPT ![sptr[t]].mutex = Free]
  /\ pc' = [pc EXCEPT ![t] = "break"]
  /\ UNCHANGED <<req, resp, out, sptr, readers, swarms, svars, cvars, evars, nvars>>

\* a mutation: the thread returns with the swarm still locked
SendmsgFailHolding(t) ==
  /\ pc[t] = "sendmsg"
  /\ pc' = [pc EXCEPT ![t] = "done"]
  /\ UNCHANGED <<req, resp, out, sptr, tvars, svars, cvars, evars, nvars>>

\* sendmsg returns -1 with another error: return 0.  The swarm_lock goes
\* out of scope and releases the swarm.
SendmsgFail(t) ==
  /\ pc[t] = "sendmsg"
  /\ heap' = [heap EXCEPT ![sptr[t]].mutex = Free]
  /\ pc' = [pc EXCEPT ![t] = "done"]
  /\ UNCHANGED <<req, resp, out, sptr, readers, swarms, svars, cvars, evars, nvars>>

\* one pass of the scrape loop: find req->hash[i]; if it is there, lock
\* the swarm, scrape it into resp.data[i] and unlock it
ScrapeHash(t) ==
  LET i == resp[t].i + 1
      j == swarms[req[t].hash[i]]
  IN  /\ pc[t] = "scrape"
      /\ resp[t].i < resp[t].num_hashes
      /\ j # 0 => heap[j].mutex = Free
      /\ resp' = [resp EXCEPT ![t].i = i,
                              ![t].data[i] = IF j # 0 THEN SwarmScrape(heap[j]) ELSE @]
      /\ UNCHANGED <<pc, req, out, sptr, tvars, svars, cvars, evars, nvars>>

\* the loop is over: pthread_rwlock_unlock
ScrapeDone(t) ==
  /\ pc[t] = "scrape"
  /\ resp[t].i = resp[t].num_hashes
  /\ readers' = readers \ {t}
  /\ pc' = [pc EXCEPT ![t] = "respond"]
  /\ UNCHANGED <<req, resp, out, sptr, swarms, heap, svars, cvars, evars, nvars>>

\* respond: sendto succeeds
RespondOk(t) ==
  /\ pc[t] = "respond"
  /\ out' = [out EXCEPT ![t] = Append(@, resp[t])]
  /\ stats' = fetch_and_add(stats, "bytes_out", resp[t].len)
  /\ added' = fetch_and_add(added, "bytes_out", resp[t].len)
  /\ nsent' = nsent + 1
  /\ issued' = IF resp[t].kind = "connect"
               THEN issued \cup {<<resp[t].to, resp[t].connection_id>>}
               ELSE issued
  /\ pc' = [pc EXCEPT ![t] = "break"]
  /\ UNCHANGED <<req, resp, sptr, tvars, reported, cvars, evars, nrecv>>

\* respond: sendto returns -1 with EINTR: goto retry_send
RespondEintr(t) ==
  /\ pc[t] = "respond"
  /\ UNCHANGED vars

\* respond: sendto returns -1 with another error; respond returns 1 and the
\* thread returns
RespondFail(t) ==
  /\ pc[t] = "respond"
  /\ pc' = [pc EXCEPT ![t] = "done"]
  /\ UNCHANGED <<req, resp, out, sptr, tvars, svars, cvars, evars, nvars>>

\* the worker, receiving at most n datagrams of U and drawing rand() from R
tracker_thread(t, U, n, R) ==
  \/ LoopTop(t)
  \/ Recv(t, U, n)
  \/ RecvEintr(t)
  \/ Dispatch(t)
  \/ Lookup(t)
  \/ Insert(t)
  \/ Announce(t, R)
  \/ SendmsgOk(t)
  \/ SendmsgEintr(t)
  \/ SendmsgFail(t)
  \/ ScrapeHash(t)
  \/ ScrapeDone(t)
  \/ RespondOk(t)
  \/ RespondEintr(t)
  \/ RespondFail(t)

(***************************************************************************)
(* The dispatcher: the workers serving every kind of datagram.             *)
(***************************************************************************)
Next == \E t \in Threads : tracker_thread(t, Datagrams, MaxDatagrams, RandValues)

Spec == Init /\ [][Next]_vars

(***************************************************************************)
(* main: the statistics, the eviction sweep and the shutdown.              *)
(***************************************************************************)
\* minutes the clock runs
MaxTicks == 2
\* swarms one sweep visits at most
PurgeBudget == 20

\* the order in which main reads and resets the counters
CounterOrder ==
  <<"connects", "announces", "scrapes", "errors", "bytes_in", "bytes_out">>

\* the table's iterators: swarms.begin(), ++it and swarms.size()
Present == {h \in Hashes : swarms[h] # 0}
Smallest(S) == IF S = {} THEN End ELSE CHOOSE h \in S : \A k \in S : h <= k
Begin == Smallest(Present)
Succ(it) == Smallest({h \in Present : h > it})
Size == Cardinality(Present)

\* sigint: the handler runs in main, the only thread that takes signals
Signal ==
  /\ ~signalled
  /\ cpc[1] # "exit"
  /\ signalled' = TRUE
  /\ quit' = TRUE
  /\ UNCHANGED <<wvars, tvars, svars, cvars, nvars, secret, udp_socket, now>>

\* while (!quit)
MainWhile ==
  /\ cpc[1] = "while"
  /\ cpc' = IF quit THEN <<"close", 0>> ELSE <<"usleep", 0>>
  /\ UNCHANGED <<purged, wvars, tvars, svars, evars, nvars, last, next_to_purge, npurge, joined>>

\* usleep(60000000) returns: a minute has passed, or a signal cut it short
MainUsleep ==
  /\ cpc[1] = "usleep"
  /\ quit \/ now < MaxTicks
  /\ now' = IF quit THEN now ELSE now + 1
  /\ cpc' = <<"read", 1>>
  /\ UNCHANGED <<purged, wvars, tvars, svars, nvars, last, next_to_purge, npurge, joined,
                 secret, udp_socket, quit, signalled>>

\* uint32_t last_x = x, for one counter
MainRead ==
  LET c == CounterOrder[cpc[2]] IN
  /\ cpc[1] = "read"
  /\ last' = [last EXCEPT ![c] = stats[c]]
  /\ cpc' = IF cpc[2] < Len(CounterOrder) THEN <<"read", cpc[2] + 1>> ELSE <<"sub", 1>>
  /\ UNCHANGED <<purged, wvars, tvars, svars, evars, nvars, next_to_purge, npurge, joined>>

\* __sync_fetch_and_sub(&x, last_x), for one counter; after the last one
\* the samples are printed and go out of use
MainSub ==
  LET c == CounterOrder[cpc[2]] IN
  /\ cpc[1] = "sub"
  /\ stats' = fetch_and_sub(stats, c, last[c])
  /\ reported' = [reported EXCEPT ![c] = (@ + last[c]) % CounterMod]
  /\ IF cpc[2] < Len(CounterOrder)
     THEN cpc' = <<"sub", cpc[2] + 1>> /\ last' = last
     ELSE cpc' = <<"sweep", 0>> /\ last' = [k \in CounterNames |-> 0]
  /\ UNCHANGED <<purged, wvars, tvars, added, evars, nvars, next_to_purge, npurge, joined>>

\* rdlock; the iterator is wrapped if it is at the end; num_to_purge
MainSweep ==
  /\ cpc[1] = "sweep"
  /\ readers' = readers \cup {Main}
  /\ next_to_purge' = IF next_to_purge = End /\ Size > 0 THEN Begin ELSE next_to_purge
  /\ npurge' = <<0, Min(Size, PurgeBudget)>>
  /\ purged' = <<>>
  /\ cpc' = <<"purge", 0>>
  /\ UNCHANGED <<wvars, swarms, heap, svars, evars, nvars, last, joined>>

\* a mutation: the swarm is purged without its lock
MainPurgeUnlocked ==
  LET it == IF next_to_purge = End THEN Begin ELSE Succ(next_to_purge) IN
  /\ cpc[1] = "purge"
  /\ npurge[1] < npurge[2]
  /\ next_to_purge' = it
  /\ IF it = End
     THEN /\ npurge' = <<npurge[2], npurge[2]>>
          /\ heap' = heap
          /\ purged' = purged
     ELSE /\ npurge' = <<npurge[1] + 1, npurge[2]>>
          /\ heap' = [heap EXCEPT ![swarms[it]] = SwarmPurgeStale(@, now)]
          /\ purged' = Append(purged, it)
  /\ UNCHANGED <<wvars, readers, swarms, svars, evars, nvars, cpc, last, joined>>

\* one pass of the purge loop: the iterator moves on; at the end the loop
\* is left, else the swarm is locked, purged and unlocked
MainPurge ==
  LET it == IF next_to_purge = End THEN Begin ELSE Succ(next_to_purge) IN
  /\ cpc[1] = "purge"
  /\ npurge[1] < npurge[2]
  /\ next_to_purge' = it
  /\ IF it = End
     THEN /\ npurge' = <<npurge[2], npurge[2]>>
          /\ heap' = heap
          /\ purged' = purged
     ELSE /\ heap[swarms[it]].mutex = Free
          /\ npurge' = <<npurge[1] + 1, npurge[2]>>
          /\ heap' = [heap EXCEPT ![swarms[it]] = SwarmPurgeStale(@, now)]
          /\ purged' = Append(purged, it)
  /\ UNCHANGED <<wvars, readers, swarms, svars, evars, nvars, cpc, last, joined>>

\* the loop is over: pthread_rwlock_unlock
MainSweepEnd ==
  /\ cpc[1] = "purge"
  /\ npurge[1] = npurge[2]
  /\ readers' = readers \ {Main}
  /\ npurge' = <<0, 0>>
  /\ cpc' = <<"while", 0>>
  /\ UNCHANGED <<purged, wvars, swarms, heap, svars, evars, nvars, last, next_to_purge, joined>>

\* close(udp_socket)
MainClose ==
  /\ cpc[1] = "close"
  /\ udp_socket' = "closed"
  /\ cpc' = <<"join", 1>>
  /\ UNCHANGED <<purged, wvars, tvars, svars, nvars, last, next_to_purge, npurge, joined,
                 secret, quit, signalled, now>>

\* pthread_join(threads[i]) returns once the thread has returned; after
\* the last one main returns EXIT_SUCCESS
MainJoin ==
  /\ cpc[1] = "join"
  /\ pc[cpc[2]] = "done"
  /\ joined' = joined \cup {cpc[2]}
  /\ cpc' = IF cpc[2] < NumThreads THEN <<"join", cpc[2] + 1>> ELSE <<"exit", 0>>
  /\ UNCHANGED <<purged, wvars, tvars, svars, evars, nvars, last, next_to_purge, npurge>>

main ==
  \/ MainWhile
  \/ MainUsleep
  \/ MainRead
  \/ MainSub
  \/ MainSweep
  \/ MainPurge
  \/ MainSweepEnd
  \/ MainClose
  \/ MainJoin

(***************************************************************************)
(* The tracker as a whole: the workers, main and the signal, serving one   *)
(* client.                                                                 *)
(***************************************************************************)
Client == [ip |-> 1, port |-> 1]

ClientDatagrams ==
  {Datagram(Client, 16, htobe64(ConnectMagic), action_connect, 7, <<>>, 0, 0),
   Datagram(Client, 16, Zero8, 3, 7, <<>>, 0, 0)}
  \cup
  {Datagram(Client, 98, c, action_announce, 7, <<1>>, 0, 1) : c \in ClientConnIds \ {Zero8}}
  \cup
  {Datagram(Client, 36, c, action_scrape, 9, <<1>>, 0, 0) : c \in ClientConnIds \ {Zero8}}

\* datagrams the client sends in one behaviour
MaxClientDatagrams == 2

NextTracker ==
  \/ \E t \in Threads :
       tracker_thread(t, ClientDatagrams, MaxClientDatagrams, {0}) \/ RecvFail(t)
  \/ main
  \/ Signal

SpecTracker == Init /\ [][NextTracker]_vars

(***************************************************************************)
(* The sweep: the workers serving announces and scrapes of two info-hashes *)
(* while main keeps ticking.                                               *)
(***************************************************************************)
\* requests of a client that has connected before
SweepDatagrams ==
  {Datagram(Client, 98, generate_connection_id(secret, Client), action_announce,
            7, <<h>>, 1, 2) : h \in Hashes}
  \cup
  {Datagram(Client, 56, generate_connection_id(secret, Client), action_scrape,
            9, <<2, 1>>, 0, 0)}

\* datagrams the workers receive in one behaviour
MaxSweepDatagrams == 2

\* the tracker after MaxTicks minutes: the client has connected and has
\* announced info-hash 2 as a leecher in the first minute, and main has
\* sampled the counters and swept the table every minute since
InitSweep ==
  /\ secret \in SecretKeys
  /\ udp_socket = "open"
  /\ quit = FALSE
  /\ pc = [t \in Threads |-> "loop"]
  /\ req = [t \in Threads |-> NoReq]
  /\ resp = [t \in Threads |-> NoResp]
  /\ out = [t \in Threads |-> <<>>]
  /\ sptr = [t \in Threads |-> 0]
  /\ readers = {}
  /\ swarms = [h \in Hashes |-> IF h = 2 THEN 1 ELSE 0]
  /\ heap = <<SwarmAnnounce(NewSwarm,
                [Datagram(Client, 98, Zero8, action_announce, 7, <<2>>, 1, 2)
                   EXCEPT !.ip = Client.ip], 0)>>
  /\ stats = [c \in CounterNames |-> 0]
  /\ added = [c \in CounterNames |->
                IF c \in {"connects", "announces"} THEN 1
                ELSE IF c = "bytes_in" THEN (16 + 98) % CounterMod
                ELSE IF c = "bytes_out" THEN (16 + 20) % CounterMod
                ELSE 0]
  /\ reported = added
  /\ issued = {<<Client, generate_connection_id(secret, Client)>>}
  /\ nsent = 2
  /\ nrecv = 0
  /\ cpc = <<"while", 0>>
  /\ last = [c \in CounterNames |-> 0]
  /\ signalled = FALSE
  /\ next_to_purge = End
  /\ npurge = <<0, 0>>
  /\ joined = {}
  /\ purged = <<>>
  /\ now = MaxTicks

\* usleep(60000000) returns after more than MaxTicks minutes: the clock is
\* not moved any further, the later minutes are not told apart
MainUsleepLate ==
  /\ cpc[1] = "usleep"
  /\ ~quit
  /\ now = MaxTicks
  /\ cpc' = <<"read", 1>>
  /\ UNCHANGED <<purged, wvars, tvars, svars, evars, nvars, last, next_to_purge,
                 npurge, joined>>

\* main's loop without a signal
main_loop ==
  \/ MainWhile
  \/ MainUsleepLate
  \/ MainRead
  \/ MainSub
  \/ MainSweep
  \/ MainPurge
  \/ MainSweepEnd

NextSweep ==
  \/ \E t \in Threads : tracker_thread(t, SweepDatagrams, MaxSweepDatagrams, {0})
  \/ main_loop

SpecSweep == InitSweep /\ [][NextSweep]_vars

(***************************************************************************)
(* One swarm: a worker serving announces and scrapes of one info-hash      *)
(* from three endpoints, while the clock runs and stale peers are purged.  *)
(***************************************************************************)
SwarmEndpoints ==
  {[ip |-> 1, port |-> 1], [ip |-> 1, port |-> 2], [ip |-> 2, port |-> 1]}

\* (left, event): a leecher starting, a seed completing, a seed announcing
\* again, a leecher stopping
SwarmKinds == {<<1, 2>>, <<0, 1>>, <<0, 0>>, <<1, 3>>}

\* the ip field of the one announce that sets it, which is the address of
\* another endpoint, and the transaction id of that announce
AlternateIp == 2
AlternateTid == 8

\* requests of clients that have connected before
SwarmDatagrams ==
  {Datagram(e, 98, generate_connection_id(secret, e), action_announce, 7,
            <<1>>, k[1], k[2]) : e \in SwarmEndpoints, k \in SwarmKinds}
  \cup
  {[Datagram(e, 98, generate_connection_id(secret, e), action_announce,
             AlternateTid, <<1>>, 1, 2) EXCEPT !.ip = AlternateIp] :
     e \in {[ip |-> 1, port |-> 1]}}
  \cup
  {Datagram(e, 36, generate_connection_id(secret, e), action_scrape, 9,
            <<1>>, 0, 0) : e \in {[ip |-> 1, port |-> 1]}}

\* datagrams the worker receives in one behaviour
MaxSwarmDatagrams == 4
\* minutes the clock moves in one step, and the minute it stops at
ClockStep == 30
MaxClock == 60

\* time passes
Elapse ==
  /\ now < MaxClock
  /\ now' = now + ClockStep
  /\ UNCHANGED <<wvars, tvars, svars, cvars, nvars, secret, udp_socket, quit,
                 signalled>>

\* swarm_lock l(*s); s->purge_stale(now), on the swarm of info-hash h
PurgeStale(h) ==
  /\ swarms[h] # 0
  /\ heap[swarms[h]].mutex = Free
  /\ heap' = [heap EXCEPT ![swarms[h]] = SwarmPurgeStale(@, now)]
  /\ UNCHANGED <<wvars, readers, swarms, svars, cvars, evars, nvars>>

NextSwarm ==
  \/ tracker_thread(1, SwarmDatagrams, MaxSwarmDatagrams, {0})
  \/ PurgeStale(1)
  \/ Elapse

SpecSwarm == Init /\ [][NextSwarm]_vars

(***************************************************************************)
(* Properties of the dispatcher.                                           *)
(***************************************************************************)
\* worker t takes the step that handles the datagram in its buffer
Handles(t) == pc[t] = "dispatch" /\ pc'[t] # "dispatch"

\* the datagram d has a full header and carries action a
HasAction(d, a) == d.size >= 16 /\ ntohl(d.action) = a

\* exactly counter c went up by n, modulo the counter width
OnlyCounted(c, n) ==
  /\ stats'[c] = (stats[c] + n) % CounterMod
  /\ \A k \in CounterNames \ {c} : stats'[k] = stats[k]

\* nothing was sent and no swarm was touched
NothingElse == nsent' = nsent /\ out' = out /\ swarms' = swarms /\ heap' = heap

C1_Answered ==
  \A t \in Threads :
    (HasAction(req[t], action_connect)
       /\ req[t].connection_id = htobe64(ConnectMagic)) =>
      /\ pc[t] \in {"dispatch", "respond"} => out[t] = <<>>
      /\ pc[t] = "break" =>
           /\ Len(out[t]) = 1
           /\ out[t][1].len = 16
           /\ out[t][1].to = req[t].from
           /\ ntohl(out[t][1].action) = 0
           /\ out[t][1].transaction_id = req[t].transaction_id
           /\ <<req[t].from, out[t][1].connection_id>> \in issued

C1_Accepted ==
  \A t \in Threads :
    (Handles(t) /\ <<req[t].from, req[t].connection_id>> \in issued) =>
      /\ (HasAction(req[t], action_announce) /\ req[t].size >= 98) =>
           pc'[t] = "lookup"
      /\ (HasAction(req[t], action_scrape) /\ req[t].size >= 36) =>
           pc'[t] = "scrape"

\* C1: a connect request with the magic connection id is answered, once the
\* worker is through with it, with exactly one datagram of 16 bytes to its
\* source, with action 0, the request's transaction id and a connection id;
\* every announce or scrape that later arrives from that source with that
\* connection id passes the connection id check, whatever was served in
\* between.
C1_ConnectBinding == [] C1_Answered /\ [][C1_Accepted]_vars

\* C1 witness: an announce with the connection id its source was issued is
\* accepted as the last datagram, after a datagram that was dropped.
C1_Witness ==
  \E t \in Threads :
    /\ pc[t] = "lookup"
    /\ <<req[t].from, req[t].connection_id>> \in issued
    /\ nrecv = MaxDatagrams
    /\ added["errors"] >= 1

\* C2: an announce or scrape whose connection id was not issued to its own
\* source is dropped: errors goes up by one, no other counter moves, nothing
\* is sent and the table and the swarms stay as they are.
C2_BadTokenDropped ==
  [][\A t \in Threads :
       (/\ Handles(t)
        /\ HasAction(req[t], action_announce) \/ HasAction(req[t], action_scrape)
        /\ <<req[t].from, req[t].connection_id>> \notin issued) =>
         pc'[t] = "continue" /\ OnlyCounted("errors", 1) /\ NothingElse]_vars

\* C2 witness: a full-size announce or scrape was dropped that carried the
\* connection id issued to another endpoint.
C2_Witness ==
  \E t \in Threads :
    /\ pc[t] = "continue"
    /\ HasAction(req[t], action_announce) \/ HasAction(req[t], action_scrape)
    /\ req[t].size >= 98
    /\ <<req[t].from, req[t].connection_id>> \notin issued
    /\ \E p \in issued : p[2] = req[t].connection_id
    /\ stats["errors"] >= 1

\* C3: a connect request without the magic connection id is dropped: errors
\* goes up by one, connects does not move and nothing is sent.
C3_BadMagicDropped ==
  [][\A t \in Threads :
       (/\ Handles(t)
        /\ HasAction(req[t], action_connect)
        /\ req[t].connection_id # htobe64(ConnectMagic)) =>
         pc'[t] = "continue" /\ OnlyCounted("errors", 1) /\ NothingElse]_vars

\* C3 witness: a connect request with connection id 0 was dropped.
C3_Witness ==
  \E t \in Threads :
    /\ pc[t] = "continue"
    /\ HasAction(req[t], action_connect)
    /\ req[t].connection_id = Zero8
    /\ out[t] = <<>>
    /\ stats["errors"] >= 1

\* C4: a datagram shorter than the 16-byte header is rejected: errors goes
\* up by one, nothing is sent, and the worker goes on with the next one.
C4_ShortCounted ==
  [][\A t \in Threads :
       (Handles(t) /\ req[t].size < 16) =>
         pc'[t] = "continue" /\ OnlyCounted("errors", 1) /\ NothingElse]_vars

\* C5: the slot a scrape fills in for a requested info-hash is all zeros
\* when the table has no swarm for the hash, and holds the swarm's counters
\* when it has one.
C5_ScrapeSlots ==
  [][\A t \in Threads :
       (pc[t] = "scrape" /\ resp'[t] # resp[t]) =>
         LET i == resp'[t].i
             j == swarms[req[t].hash[i]]
         IN  resp'[t].data[i] =
               IF j = 0 THEN Slot(0, 0, 0)
               ELSE Slot(heap[j].seeds, heap[j].download_count, heap[j].downloaders)]_vars

\* C6: exactly one swarm is created per info-hash, and the swarm a worker
\* announces to is the one the table maps the info-hash to.
C6_OneSwarmPerHash ==
  /\ Len(heap) = Cardinality({h \in Hashes : swarms[h] # 0})
  /\ \A t \in Threads :
       pc[t] \in {"announce", "sendmsg"} => sptr[t] = swarms[req[t].hash[1]]

\* C7: a worker that is through with an accepted request without having
\* terminated has sent its response, whatever number of sends returned
\* EINTR.
C7_EintrRetried ==
  \A t \in Threads :
    (pc[t] = "break" /\ resp[t].kind # "none") => Len(out[t]) = 1

\* C8: the interval of every announce response lies in 1680 .. 1920.
C8_IntervalRange ==
  \A t \in Threads :
    resp[t].kind = "announce" => ntohl(resp[t].interval) \in 1680 .. 1920

(***************************************************************************)
(* Properties of the tracker as a whole.                                   *)
(***************************************************************************)
\* C9: for each counter, what main has sampled and taken out so far plus
\* what the counter holds is what the workers have added, modulo the
\* counter width: no increment is lost and none is reported twice.
C9_NoLostIncrement ==
  \A c \in CounterNames : (reported[c] + stats[c]) % CounterMod = added[c]

\* C9 witness: main has just reset errors, taking out what it had read, and
\* the counter already holds an increment that is not in that sample.
C9_Witness ==
  /\ cpc = <<"sub", 5>>
  /\ reported["errors"] >= 1
  /\ stats["errors"] >= 1

\* the steps a worker takes on its own: every step but the arrival of a
\* datagram and the failure of a system call
WorkerRuns(t) ==
  \/ LoopTop(t)
  \/ Dispatch(t)
  \/ Lookup(t)
  \/ Insert(t)
  \/ Announce(t, {0})
  \/ SendmsgOk(t)
  \/ ScrapeHash(t)
  \/ ScrapeDone(t)
  \/ RespondOk(t)

\* every thread that can run does run.  Nothing is assumed of the clients,
\* of the signal, or of a recvfrom that was blocked when the socket was
\* closed: close(2) leaves open whether such a call returns.
FairSpecTracker ==
  /\ SpecTracker
  /\ WF_vars(main)
  /\ \A t \in Threads : WF_vars(WorkerRuns(t))

\* C10: once a signal has been delivered, main leaves its loop, closes the
\* socket, joins every worker and exits.
C10_ShutdownCompletes == signalled ~> (cpc[1] = "exit")

(***************************************************************************)
(* Properties of a swarm.                                                  *)
(***************************************************************************)
CountSeeds(peers) == Cardinality({i \in 1 .. Len(peers) : peers[i].seed})

\* C11: in every swarm the seed counter and the downloader counter are the
\* numbers of seeds and of leechers among its entries, so that they add up
\* to the number of entries, and no two entries have the same endpoint.
C11_CountersMatchPeers ==
  \A j \in 1 .. Len(heap) :
    LET s == heap[j] IN
    /\ s.seeds = CountSeeds(s.peers)
    /\ s.seeds + s.downloaders = Len(s.peers)
    /\ \A a, b \in 1 .. Len(s.peers) :
         (s.peers[a].ip = s.peers[b].ip /\ s.peers[a].port = s.peers[b].port)
           => a = b

\* C11 witness: four announces have been served; the swarm is full, its
\* oldest entry has completed, and one entry is a seed.
C11_Witness ==
  /\ Len(heap) = 1
  /\ pc[1] = "break"
  /\ Len(heap[1].peers) = MaxPeers
  /\ heap[1].seeds = 1
  /\ heap[1].download_count = 1
  /\ heap[1].peers[1].complete
  /\ nrecv = MaxSwarmDatagrams

\* worker t runs swarm::announce on swarm j in this step
Announces(t, j) == pc[t] = "announce" /\ pc'[t] = "sendmsg" /\ sptr[t] = j

\* the announce in worker t's buffer is of event completed, by an endpoint
\* whose entry in swarm s is missing or not complete
Completes(t, s) ==
  LET i == PeerIndex(s.peers, req[t].ip, req[t].port, 1)
  IN  /\ ntohl(req[t].event) = event_completed
      /\ i # 0 => ~s.peers[i].complete

\* download_count goes up by one with an announce that completes a peer
\* and stays as it is in every other step
C12_CountsCompletions ==
  \A j \in 1 .. Len(heap) :
    heap'[j].download_count =
      heap[j].download_count +
        (IF \E t \in Threads : Announces(t, j) /\ Completes(t, heap[j])
         THEN 1 ELSE 0)

\* download_count is at least the number of endpoints that ever announced
\* event completed
C12_CoversCompleters ==
  \A j \in 1 .. Len(heap) :
    heap[j].download_count >=
      Cardinality({heap[j].completed_by[i] : i \in 1 .. Len(heap[j].completed_by)})

\* C12: a swarm's download_count never goes down: it goes up by exactly one
\* with an announce of event completed by an endpoint whose entry was not
\* complete, no other step changes it, and it is never less than the number
\* of endpoints that ever announced event completed to the swarm.
C12_DownloadCount == [] C12_CoversCompleters /\ [][C12_CountsCompletions]_vars

\* C12 witness: two announces of event completed have been served by a swarm
\* and one of them, by an endpoint already complete, was not counted.
C12_Witness ==
  \E j \in 1 .. Len(heap) :
    /\ Len(heap[j].completed_by) = 2
    /\ heap[j].completed_by[1] = heap[j].completed_by[2]
    /\ heap[j].download_count = 1

\* C13: once swarm::announce has run for an accepted announce of event
\* stopped, the announcing endpoint has no entry in the swarm, and the seeds
\* and downloaders of the response are the numbers of seeds and leechers
\* among the entries left, which do not include it.
C13_StoppedRemoved ==
  \A t \in Threads :
    (pc[t] = "sendmsg" /\ ntohl(req[t].event) = event_stopped) =>
      LET peers == heap[sptr[t]].peers IN
      /\ PeerIndex(peers, req[t].ip, req[t].port, 1) = 0
      /\ ntohl(resp[t].seeds) = CountSeeds(peers)
      /\ ntohl(resp[t].downloaders) = Len(peers) - CountSeeds(peers)

\* C13 witness: an endpoint that had completed and was in the swarm with
\* another peer has announced stopped; the other peer is all that is left.
C13_Witness ==
  \E t \in Threads :
    /\ pc[t] = "sendmsg"
    /\ ntohl(req[t].event) = event_stopped
    /\ heap[sptr[t]].completed_by = <<(<<req[t].ip, req[t].port>>)>>
    /\ Len(heap[sptr[t]].peers) = 1
    /\ nrecv = 3
    /\ now = 0

(***************************************************************************)
(* Properties of the locks and of the sweep.                               *)
(***************************************************************************)
\* worker t locks a swarm and runs announce or scrape on it in this step
SwarmCall(t) ==
  \/ pc[t] = "announce" /\ pc'[t] = "sendmsg"
  \/ /\ pc[t] = "scrape"
     /\ resp'[t] # resp[t]
     /\ swarms[req[t].hash[resp'[t].i]] # 0

\* recvfrom, sendto or sendmsg returns in worker t in this step
SystemCall(t) == pc[t] \in {"blocked", "respond", "sendmsg"} /\ pc'[t] # pc[t]

\* main locks a swarm and runs purge_stale on it in this step
PurgeCall == cpc[1] = "purge" /\ Len(purged') = Len(purged) + 1

\* C14: no thread locks a swarm, runs announce, scrape or purge_stale, or
\* is in a send or receive call while it holds the lock of the table.
C14_TableLockBrief ==
  [][/\ \A t \in Threads : (SwarmCall(t) \/ SystemCall(t)) => t \notin readers
     /\ PurgeCall => Main \notin readers]_vars

\* the swarms whose lock thread x holds
Holds(x) == {j \in 1 .. Len(heap) : heap[j].mutex = x}

\* the swarm whose lock worker t takes next, 0 if its next step takes none
Wants(t) ==
  IF pc[t] = "announce" THEN sptr[t]
  ELSE IF pc[t] = "scrape" /\ resp[t].i < resp[t].num_hashes
  THEN swarms[req[t].hash[resp[t].i + 1]]
  ELSE 0

\* the swarm whose lock main takes next, 0 if its next step takes none
MainWants ==
  IF cpc[1] = "purge" /\ npurge[1] < npurge[2] /\ next_to_purge # End
     /\ Succ(next_to_purge) # End
  THEN swarms[Succ(next_to_purge)]
  ELSE 0

\* thread r, which holds the read lock of the table, can take its next step
\* or waits for the lock of a swarm that is held
ReaderGoesOn(r) ==
  IF r = Main
  THEN ENABLED (MainPurge \/ MainSweepEnd)
         \/ (MainWants # 0 /\ heap[MainWants].mutex # Free)
  ELSE ENABLED (ScrapeHash(r) \/ ScrapeDone(r))
         \/ (Wants(r) # 0 /\ heap[Wants(r)].mutex # Free)

\* C15: no thread holds more than one swarm lock, and no thread waits for a
\* lock for ever: the holder of a swarm lock waits for no lock and releases
\* it with its next step, every holder of the table's read lock can go on
\* or waits for such a swarm lock, and a worker that waits for the table's
\* write lock does not hold the read lock itself.
C15_NoDeadlock ==
  /\ \A x \in Threads \cup {Main} : Cardinality(Holds(x)) <= 1
  /\ \A j \in 1 .. Len(heap) :
       heap[j].mutex # Free =>
         heap[j].mutex \in Threads /\ ENABLED SendmsgOk(heap[j].mutex)
  /\ \A r \in readers : (r \in Threads => pc[r] # "insert") /\ ReaderGoesOn(r)

\* C15 witness: a worker waits for the write lock of the table, which main
\* and the other worker hold for reading, and the other worker goes on to
\* lock a swarm.
C15_Witness ==
  \E t, u \in Threads :
    /\ pc[t] = "insert"
    /\ readers = {u, Main}
    /\ Wants(u) # 0

\* main keeps ticking and every worker that can run does run
FairSpecSweep ==
  /\ SpecSweep
  /\ WF_vars(main_loop)
  /\ \A t \in Threads : WF_vars(WorkerRuns(t))

\* C16: every swarm in the table has purge_stale called on it again and
\* again, the first one in the order of iteration as well.
C16_RoundRobin ==
  \A h \in Hashes :
    [](swarms[h] # 0 => <>(\E i \in 1 .. Len(purged) : purged[i] = h))

\* in one sweep purge_stale is called on no more swarms than the table
\* holds or the budget allows, and on no swarm twice
C17_Budget ==
  /\ Len(purged) <= Min(Size, PurgeBudget)
  /\ \A a, b \in 1 .. Len(purged) : purged[a] = purged[b] => a = b

\* main calls purge_stale on a swarm only when no worker holds its lock
C17_Locked ==
  PurgeCall => heap[swarms[next_to_purge']].mutex = Free

C18_NoLockLeft ==
  \A t \in Threads : pc[t] = "done" => t \notin readers /\ Holds(t) = {}

\* C18 witness: a worker has returned on a failed sendmsg of an announce
\* response, and the other worker has since locked the same swarm.
C18_Witness ==
  \E t, u \in Threads :
    /\ pc[t] = "done"
    /\ resp[t].kind = "announce"
    /\ pc[u] = "sendmsg"
    /\ sptr[u] = sptr[t]

(***************************************************************************)
(* Properties of the responses.                                            *)
(***************************************************************************)
\* the datagram d passes every check of its case
Passes(d) ==
  \/ HasAction(d, action_connect) /\ d.connection_id = htobe64(ConnectMagic)
  \/ /\ HasAction(d, action_announce)
     /\ <<d.from, d.connection_id>> \in issued
     /\ d.size >= 98
  \/ /\ HasAction(d, action_scrape)
     /\ <<d.from, d.connection_id>> \in issued
     /\ d.size >= 36

\* C19: for the datagram it has received a worker sends at most one
\* datagram, and only if the request passes every check; the response goes
\* to the source of the request and carries the request's action, which is
\* 0, 1 or 2, and its transaction id.  Nothing is sent for a request that is
\* rejected.
C19_OneEcho ==
  \A t \in Threads :
    /\ Len(out[t]) <= 1
    /\ Len(out[t]) = 1 =>
         /\ Passes(req[t])
         /\ out[t][1].to = req[t].from
         /\ out[t][1].action = req[t].action
         /\ ntohl(out[t][1].action) \in {action_connect, action_announce, action_scrape}
         /\ out[t][1].transaction_id = req[t].transaction_id

\* C19 witness: one worker has answered a scrape, the other has dropped a
\* datagram with an unknown action without sending anything.
C19_Witness ==
  \E t, u \in Threads :
    /\ pc[t] = "break"
    /\ Len(out[t]) = 1
    /\ HasAction(req[t], action_scrape)
    /\ pc[u] = "break"
    /\ HasAction(req[u], 3)
    /\ out[u] = <<>>

\* the address an accepted announce is passed on with is its source
\* address, unless alternate addresses are allowed and its ip field is set
C20_Override ==
  \A t \in Threads :
    (Handles(t) /\ pc'[t] = "lookup") =>
      req'[t].ip = IF allow_alternate_ip /\ req[t].ip # 0
                   THEN req[t].ip ELSE req[t].from.ip

\* the swarm has recorded the announce under the address it was passed on
\* with, and with allow_alternate_ip off that is the source address
C20_Recorded ==
  \A t \in Threads :
    (pc[t] = "sendmsg" /\ ntohl(req[t].event) # event_stopped) =>
      /\ PeerIndex(heap[sptr[t]].peers, req[t].ip, req[t].port, 1) # 0
      /\ ~allow_alternate_ip => req[t].ip = req[t].from.ip

\* C20: an accepted announce is recorded under the source address of its
\* datagram whenever allow_alternate_ip is false, whatever its ip field
\* holds, and whenever the ip field is 0; it is recorded under the ip field
\* only when allow_alternate_ip is true and the field is not 0.
C20_RecordedIp == [] C20_Recorded /\ [][C20_Override]_vars

\* C20 witness: the announce whose ip field names another endpoint's
\* address has been recorded under the address it came from.
C20_Witness ==
  \E t \in Threads :
    /\ pc[t] = "sendmsg"
    /\ ntohl(req[t].transaction_id) = AlternateTid
    /\ req[t].ip = req[t].from.ip
    /\ PeerIndex(heap[sptr[t]].peers, req[t].from.ip, req[t].port, 1) # 0
    /\ PeerIndex(heap[sptr[t]].peers, AlternateIp, req[t].port, 1) = 0

====
